---- MODULE Spec2Model ----
(***************************************************************************)
(* A model of the SentryRelay errbot plugin (src/sentryrelay.py): the      *)
(* webhook handler sentry_notification and the helpers it calls.           *)
(*                                                                         *)
(* Python values are tagged records [t |-> <type>, v |-> <value>]; a dict  *)
(* is a function from its keys to values.  Strings are TLA+ strings, so    *)
(* the regular-expression matcher and the JSON decoder below work on the   *)
(* characters of the actual pattern, slug and body texts.                  *)
(***************************************************************************)
EXTENDS Integers, Sequences, FiniteSets, TLC

(***************************************************************************)
(* Characters of a string                                                  *)
(***************************************************************************)
Ch(s, i) == IF i >= 1 /\ i <= Len(s) THEN SubSeq(s, i, i) ELSE ""

Sub(s, i, j) == IF i >= 1 /\ j <= Len(s) /\ i <= j THEN SubSeq(s, i, j) ELSE ""

(***************************************************************************)
(* Python values                                                           *)
(***************************************************************************)
PyStr(s)  == [t |-> "str",  v |-> s]
PyInt(n)  == [t |-> "int",  v |-> n]
PyBool(b) == [t |-> "bool", v |-> b]
PyNone    == [t |-> "None", v |-> 0]
PyDict(f) == [t |-> "dict", v |-> f]
PyList(q) == [t |-> "list", v |-> q]

EmptyDict == <<>>

\* obj[key] for a string key: the value, a KeyError (dict without the key)
\* or a TypeError (list, str, int, bool and None are not subscriptable by a
\* string key).
GetItem(obj, key) ==
    IF obj.t = "dict"
    THEN IF key \in DOMAIN obj.v
         THEN [exc |-> "", val |-> obj.v[key]]
         ELSE [exc |-> "KeyError", val |-> PyNone]
    ELSE [exc |-> "TypeError", val |-> PyNone]

(***************************************************************************)
(* re.match(pat, string): a match anchored at the first character of the   *)
(* subject that need not consume all of it.  The pattern syntax covered is *)
(* the one the configuration template uses: literal characters, escaped    *)
(* characters, '.', and the quantifiers '*' and '*?' on one atom.          *)
(***************************************************************************)
AtomLen(p, i) == IF Ch(p, i) = "\\" THEN 2 ELSE 1

AtomMatches(p, i, c) ==
    IF Ch(p, i) = "\\" THEN c = Ch(p, i + 1)
    ELSE IF Ch(p, i) = "." THEN c # "\n"
    ELSE c = Ch(p, i)

RECURSIVE MatchHere(_, _, _, _)
MatchHere(p, i, s, j) ==
    IF i > Len(p) THEN TRUE
    ELSE LET q == i + AtomLen(p, i)
         IN  IF Ch(p, q) = "*"
             THEN LET rest == IF Ch(p, q + 1) = "?" THEN q + 2 ELSE q + 1
                  IN  \E n \in 0..(Len(s) - j + 1) :
                         /\ \A k \in j..(j + n - 1) : AtomMatches(p, i, Ch(s, k))
                         /\ MatchHere(p, rest, s, j + n)
             ELSE /\ j <= Len(s)
                  /\ AtomMatches(p, i, Ch(s, j))
                  /\ MatchHere(p, q, s, j + 1)

re_match(pat, string) == MatchHere(pat, 1, string, 1)

(***************************************************************************)
(* json.loads(text): objects, arrays, strings without escapes, unsigned    *)
(* integers, true, false and null, with optional white space; anything     *)
(* else, the empty text included, is a JSONDecodeError.                    *)
(***************************************************************************)
Digits == <<"0", "1", "2", "3", "4", "5", "6", "7", "8", "9">>

IsDigit(c) == \E d \in 1..10 : Digits[d] = c

DigitVal(c) == (CHOOSE d \in 1..10 : Digits[d] = c) - 1

ParseFail == [ok |-> FALSE, val |-> PyNone, pos |-> 0]

ParseOk(val, pos) == [ok |-> TRUE, val |-> val, pos |-> pos]

RECURSIVE SkipWs(_, _)
SkipWs(s, i) ==
    IF Ch(s, i) \in {" ", "\n", "\t", "\r"} THEN SkipWs(s, i + 1) ELSE i

\* index of the quote that closes a string whose first character is s[i]
RECURSIVE StrEnd(_, _)
StrEnd(s, i) ==
    IF i > Len(s) \/ Ch(s, i) = "\\" THEN 0
    ELSE IF Ch(s, i) = "\"" THEN i
    ELSE StrEnd(s, i + 1)

\* s[i] is the opening quote
ParseString(s, i) ==
    LET e == StrEnd(s, i + 1)
    IN  IF e = 0 THEN ParseFail ELSE ParseOk(PyStr(Sub(s, i + 1, e - 1)), e + 1)

RECURSIVE ParseNumber(_, _, _)
ParseNumber(s, i, acc) ==
    IF IsDigit(Ch(s, i)) THEN ParseNumber(s, i + 1, 10 * acc + DigitVal(Ch(s, i)))
    ELSE ParseOk(PyInt(acc), i)

RECURSIVE ParseValue(_, _)
RECURSIVE ParseMembers(_, _, _)
RECURSIVE ParseElements(_, _, _)

\* the members of an object, s[i] being where the next key is expected
ParseMembers(s, i, acc) ==
    LET k == SkipWs(s, i)
    IN  IF Ch(s, k) # "\"" THEN ParseFail
        ELSE LET key == ParseString(s, k)
                 c   == SkipWs(s, key.pos)
             IN  IF ~key.ok \/ Ch(s, c) # ":" THEN ParseFail
                 ELSE LET val == ParseValue(s, c + 1)
                          e   == SkipWs(s, val.pos)
                          new == (key.val.v :> val.val) @@ acc
                      IN  IF ~val.ok THEN ParseFail
                          ELSE IF Ch(s, e) = "," THEN ParseMembers(s, e + 1, new)
                          ELSE IF Ch(s, e) = "}" THEN ParseOk(PyDict(new), e + 1)
                          ELSE ParseFail

\* the elements of an array, s[i] being where the next element is expected
ParseElements(s, i, acc) ==
    LET val == ParseValue(s, i)
        e   == SkipWs(s, val.pos)
        new == Append(acc, val.val)
    IN  IF ~val.ok THEN ParseFail
        ELSE IF Ch(s, e) = "," THEN ParseElements(s, e + 1, new)
        ELSE IF Ch(s, e) = "]" THEN ParseOk(PyList(new), e + 1)
        ELSE ParseFail

ParseValue(s, i) ==
    LET k == SkipWs(s, i)
        c == Ch(s, k)
    IN  IF c = "{"
        THEN IF Ch(s, SkipWs(s, k + 1)) = "}"
             THEN ParseOk(PyDict(EmptyDict), SkipWs(s, k + 1) + 1)
             ELSE ParseMembers(s, k + 1, EmptyDict)
        ELSE IF c = "["
        THEN IF Ch(s, SkipWs(s, k + 1)) = "]"
             THEN ParseOk(PyList(<<>>), SkipWs(s, k + 1) + 1)
             ELSE ParseElements(s, k + 1, <<>>)
        ELSE IF c = "\"" THEN ParseString(s, k)
        ELSE IF IsDigit(c) THEN ParseNumber(s, k, 0)
        ELSE IF Sub(s, k, k + 3) = "null" THEN ParseOk(PyNone, k + 4)
        ELSE IF Sub(s, k, k + 3) = "true" THEN ParseOk(PyBool(TRUE), k + 4)
        ELSE IF Sub(s, k, k + 4) = "false" THEN ParseOk(PyBool(FALSE), k + 5)
        ELSE ParseFail

\* [exc |-> "" , val |-> the decoded value] or a JSONDecodeError
json_loads(text) ==
    LET r == ParseValue(text, 1)
    IN  IF r.ok /\ SkipWs(text, r.pos) = Len(text) + 1
        THEN [exc |-> "", val |-> r.val]
        ELSE [exc |-> "JSONDecodeError", val |-> PyNone]

(***************************************************************************)
(* str(x) as an f-string renders a value                                   *)
(***************************************************************************)
RECURSIVE IntToStr(_)
IntToStr(n) == IF n < 10 THEN Digits[n + 1] ELSE IntToStr(n \div 10) \o Digits[(n % 10) + 1]

PyFormat(x) ==
    IF x.t = "str" THEN x.v
    ELSE IF x.t = "int" THEN IntToStr(x.v)
    ELSE IF x.t = "bool" THEN (IF x.v THEN "True" ELSE "False")
    ELSE IF x.t = "None" THEN "None"
    ELSE "<" \o x.t \o ">"

\* bool(x): the truth value an `if not x` tests
Truthy(x) ==
    IF x.t = "bool" THEN x.v
    ELSE IF x.t = "None" THEN FALSE
    ELSE IF x.t = "int" THEN x.v # 0
    ELSE IF x.t \in {"str", "bytes", "list"} THEN Len(x.v) > 0
    ELSE DOMAIN x.v # {}

PyBytes(b) == [t |-> "bytes", v |-> b]

(***************************************************************************)
(* Class constants                                                         *)
(***************************************************************************)
API_PREFIX == "https://sentry.io/api/0"

ISSUE_PATH(prefix, issue_id) == prefix \o "/issues/" \o issue_id \o "/"

NO_PROJECT_SLUG == "(no project slug)"

(***************************************************************************)
(* hmac.new(key, msg, sha256).hexdigest().  The digest is symbolic: a text *)
(* that names the key and the message, so that two digests are equal       *)
(* exactly when key and message are, as for HMAC-SHA256 up to collisions.  *)
(***************************************************************************)
hexdigest(key, msg) == "hmac-sha256[" \o key \o "][" \o msg \o "]"

(***************************************************************************)
(* The helpers of SentryRelay                                              *)
(***************************************************************************)
Ok(val) == [exc |-> "", val |-> val]

Raise(exc) == [exc |-> exc, val |-> PyNone]

\* re.match(pat, x) on a Python value: a TypeError unless x is a str
py_re_match(pat, x) ==
    IF x.t # "str" THEN Raise("TypeError") ELSE Ok(PyBool(re_match(pat, x.v)))

\* _has_valid_sig without the comparison of the digest
_has_valid_sig_unchecked(cfg, request) ==
    LET data == request.body
        sig  == request.sig
    IN  IF sig.t = "None" THEN PyBool(FALSE) ELSE PyBytes(data)

\* _has_valid_sig whose digest is taken over other bytes than it returns
_has_valid_sig_padded(cfg, request) ==
    LET data == request.body
        sig  == request.sig
    IN  IF sig.t = "None" THEN PyBool(FALSE)
        ELSE LET digest == hexdigest(cfg.CLIENT_SECRET, data \o " ")
             IN  IF digest # sig.v THEN PyBool(FALSE) ELSE PyBytes(data)

\* False, or the raw body when the header carries its digest
_has_valid_sig(cfg, request) ==
    LET data == request.body
        sig  == request.sig
    IN  IF sig.t = "None" THEN PyBool(FALSE)
        ELSE LET digest == hexdigest(cfg.CLIENT_SECRET, data)
             IN  IF digest # sig.v THEN PyBool(FALSE) ELSE PyBytes(data)

RECURSIVE IgnoredFrom(_, _, _)
IgnoredFrom(ignore, i, project_slug) ==
    IF i > Len(ignore) THEN Ok(PyBool(FALSE))
    ELSE LET m == py_re_match(ignore[i], project_slug)
         IN  IF m.exc # "" THEN m
             ELSE IF m.val.v THEN Ok(PyBool(TRUE))
             ELSE IgnoredFrom(ignore, i + 1, project_slug)

\* _is_ignored that answers after the first pattern
_is_ignored_first_only(cfg, project_slug) ==
    IF cfg.IGNORE = <<>> THEN Ok(PyBool(FALSE))
    ELSE py_re_match(cfg.IGNORE[1], project_slug)

_is_ignored(cfg, project_slug) == IgnoredFrom(cfg.IGNORE, 1, project_slug)

RECURSIVE TokenFrom(_, _, _)
TokenFrom(tokens, i, project_slug) ==
    IF i > Len(tokens) THEN Ok(PyNone)
    ELSE LET m == py_re_match(tokens[i].pat, project_slug)
         IN  IF m.exc # "" THEN m
             ELSE IF m.val.v THEN Ok(PyStr(tokens[i].token))
             ELSE TokenFrom(tokens, i + 1, project_slug)

\* _get_project_token that returns the loop variable after the loop
_get_project_token_leaky(cfg, project_slug) ==
    LET found == TokenFrom(cfg.TOKENS, 1, project_slug)
    IN  IF found.exc = "" /\ found.val.t = "None" /\ cfg.TOKENS # <<>>
        THEN Ok(PyStr(cfg.TOKENS[Len(cfg.TOKENS)].token))
        ELSE found

\* _get_project_token that keeps looking after a match: the last match wins
RECURSIVE LastTokenFrom(_, _, _, _)
LastTokenFrom(tokens, i, project_slug, acc) ==
    IF i > Len(tokens) THEN Ok(acc)
    ELSE LET m == py_re_match(tokens[i].pat, project_slug)
         IN  IF m.exc # "" THEN m
             ELSE LastTokenFrom(tokens, i + 1, project_slug,
                                IF m.val.v THEN PyStr(tokens[i].token) ELSE acc)

_get_project_token_last(cfg, project_slug) ==
    LastTokenFrom(cfg.TOKENS, 1, project_slug, PyNone)

_get_project_token(cfg, project_slug) == TokenFrom(cfg.TOKENS, 1, project_slug)

\* _get_issue that takes every status below 400 for a success
_get_issue_any_2xx(issue_id, token, response) ==
    LET url     == ISSUE_PATH(API_PREFIX, PyFormat(issue_id))
        headers == [Authorization |-> "Bearer " \o PyFormat(token)]
        req     == response
        ret     == IF req.exc # "" THEN Raise(req.exc)
                   ELSE IF req.status_code \div 100 # 2 THEN Ok(PyBool(FALSE))
                   ELSE json_loads(req.text)
    IN  [get |-> [url |-> url, headers |-> headers], exc |-> ret.exc, val |-> ret.val]

_get_issue_lenient(issue_id, token, response) ==
    LET url     == ISSUE_PATH(API_PREFIX, PyFormat(issue_id))
        headers == [Authorization |-> "Bearer " \o PyFormat(token)]
        req     == response
        ret     == IF req.exc # "" THEN Raise(req.exc)
                   ELSE IF req.status_code >= 400 THEN Ok(PyBool(FALSE))
                   ELSE json_loads(req.text)
    IN  [get |-> [url |-> url, headers |-> headers], exc |-> ret.exc, val |-> ret.val]

\* the GET _get_issue issues, and what it makes of the response: False
\* unless the status is 200, else the decoded body; requests.get and
\* req.json() may raise
_get_issue(issue_id, token, response) ==
    LET url     == ISSUE_PATH(API_PREFIX, PyFormat(issue_id))
        headers == [Authorization |-> "Bearer " \o PyFormat(token)]
        req     == response
        ret     == IF req.exc # "" THEN Raise(req.exc)
                   ELSE IF req.status_code # 200 THEN Ok(PyBool(FALSE))
                   ELSE json_loads(req.text)
    IN  [get |-> [url |-> url, headers |-> headers], exc |-> ret.exc, val |-> ret.val]

_color_string(color, string) ==
    IF string.t # "str" THEN Raise("TypeError")
    ELSE Ok(PyStr("`" \o string.v \o "`{:color='" \o color \o "'}"))

_format_project(url) == _color_string("cyan", url)

_format_action(branch) == _color_string("magenta", branch)

_format_url(url) == _color_string("cyan", url)

\* payload["data"]["issue"]...: the first exception ends the chain
RECURSIVE GetPath(_, _)
GetPath(obj, keys) ==
    IF keys = <<>> THEN Ok(obj)
    ELSE LET g == GetItem(obj, Head(keys))
         IN  IF g.exc # "" THEN g ELSE GetPath(g.val, Tail(keys))

\* the message of lines 130-134
BuildMessage(project_slug, action, title, issue_url) ==
    LET label   == _color_string("red", PyStr("SENTRY"))
        project == _format_project(project_slug)
        act     == _format_action(action)
        url     == _format_url(issue_url)
    IN  IF project.exc # "" THEN project
        ELSE IF act.exc # "" THEN act
        ELSE IF url.exc # "" THEN url
        ELSE Ok(PyStr(label.val.v \o " [" \o project.val.v \o "]"
                      \o " issue " \o act.val.v \o ":"
                      \o " " \o PyFormat(title) \o " " \o url.val.v))

\* errbot's build_identifier: the identifier of a room name
build_identifier(channel) == [kind |-> "identifier", name |-> channel]

(***************************************************************************)
(* Configuration and activation.  A configuration is a Python dict: the    *)
(* keys that are present, CLIENT_SECRET a str, TOKENS the items of a dict  *)
(* in insertion order, IGNORE a list of str or something that is no list.  *)
(***************************************************************************)
PyItems(entries) == [t |-> "dict", v |-> entries]

\* check_configuration: "" when the configuration is accepted, else the
\* exception it raises
check_configuration(configuration) ==
    IF "TOKENS" \notin DOMAIN configuration.v THEN "ValidationException"
    ELSE IF "CLIENT_SECRET" \notin DOMAIN configuration.v THEN "ValidationException"
    ELSE IF /\ "IGNORE" \in DOMAIN configuration.v
            /\ configuration.v["IGNORE"].t # "list"
    THEN "ValidationException"
    ELSE ""

\* activate: self.config afterwards, and whether super().activate() ran
activate(self_config) ==
    IF ~Truthy(self_config)
    THEN [config |-> self_config, activated |-> FALSE]
    ELSE [config |-> IF "IGNORE" \notin DOMAIN self_config.v
                     THEN PyDict(("IGNORE" :> PyList(<<>>)) @@ self_config.v)
                     ELSE self_config,
          activated |-> TRUE]

\* self.config as the handler reads it, once the plugin is activated
HandlerConfig(self_config) ==
    [CLIENT_SECRET |-> self_config.v["CLIENT_SECRET"].v,
     TOKENS        |-> self_config.v["TOKENS"].v,
     IGNORE        |-> [i \in DOMAIN self_config.v["IGNORE"].v |->
                           self_config.v["IGNORE"].v[i].v]]

\* the dict of a configuration that has the three keys
PyConfig(cfg) ==
    PyDict([CLIENT_SECRET |-> PyStr(cfg.CLIENT_SECRET),
            TOKENS        |-> PyItems(cfg.TOKENS),
            IGNORE        |-> PyList([i \in DOMAIN cfg.IGNORE |-> PyStr(cfg.IGNORE[i])])])

(***************************************************************************)
(* Bounds                                                                  *)
(***************************************************************************)
\* request slots
NReq == 2

\* how many times the same request is delivered
MaxRounds == 2

Reqs == 1..NReq

(***************************************************************************)
(* The inputs: configurations, joined rooms, requests, API responses       *)
(***************************************************************************)
Quote(s) == "\"" \o s \o "\""

Member(key, json) == Quote(key) \o ":" \o json

RECURSIVE Join(_)
Join(parts) ==
    IF parts = <<>> THEN ""
    ELSE IF Head(parts) = "" THEN Join(Tail(parts))
    ELSE IF Join(Tail(parts)) = "" THEN Head(parts)
    ELSE Head(parts) \o "," \o Join(Tail(parts))

Obj(members) == "{" \o Join(members) \o "}"

\* the text of an issue event; an empty member is left out
EventBody(action, id, project, title) ==
    Obj(<<action, Member("data", Obj(<<Member("issue", Obj(<<id, project, title>>))>>))>>)

ActionMember    == Member("action", Quote("created"))
IdMember        == Member("id", Quote("1"))
TitleMember     == Member("title", Quote("Boom"))

Project(slug) == Member("project", Obj(<<Member("slug", slug)>>))

Slugs == {"demo", "demo-x", "x-demo", "other"}

Bodies ==
    {EventBody(ActionMember, IdMember, Project(Quote(slug)), TitleMember) : slug \in Slugs}
    \cup
    { "",
      "oops",
      "[]",
      "{}",
      Obj(<<Member("data", "1")>>),
      EventBody(ActionMember, IdMember, "", TitleMember),
      EventBody(ActionMember, IdMember, Member("project", Quote("demo")), TitleMember),
      EventBody(ActionMember, IdMember, Project("5"), TitleMember),
      EventBody(ActionMember, "", Project(Quote("demo-x")), TitleMember),
      EventBody("", IdMember, Project(Quote("demo-x")), TitleMember),
      EventBody(ActionMember, IdMember, Project(Quote("demo-x")), ""),
      EventBody(Member("action", "5"), IdMember, Project(Quote("demo-x")), TitleMember) }

Secrets == {"f9876"}

OtherSecret == "0000"

\* the Sentry-Hook-Signature header of a request that carries body
Signatures(secret, body) ==
    { PyNone,
      PyStr(hexdigest(secret, body)),
      PyStr(hexdigest(OtherSecret, body)),
      PyStr(hexdigest(secret, body \o " ")),
      PyStr(Sub(hexdigest(secret, body), 1, Len(hexdigest(secret, body)) - 1)) }

Channels == {"ops", "dev"}

RoomSets == { {}, {"#ops"}, {"ops"}, {"#ops", "#dev"} }

Entry(pat, token) == [pat |-> pat, token |-> token]

\* TOKENS in declaration order (a dict keeps insertion order)
TokenTables ==
    { <<>>,
      <<Entry("demo", "tok")>>,
      <<Entry("demo-.*", "a1234"), Entry(".*", "b5678")>>,
      <<Entry(".*", "b5678"), Entry("demo-.*", "a1234")>>,
      <<Entry("demo-.*", "a1234"), Entry(".*?-demo", "b5678")>> }

IgnoreLists ==
    { <<>>,
      <<"demo-.*">>,
      <<"x-.*", "\\(no project.*">> }

Configs ==
    { [CLIENT_SECRET |-> secret, TOKENS |-> tokens, IGNORE |-> ignore] :
        secret \in Secrets, tokens \in TokenTables, ignore \in IgnoreLists }

Response(status_code, text) == [exc |-> "", status_code |-> status_code, text |-> text]

PermalinkMember == Member("permalink", Quote("https://sentry.io/demo/issues/1/"))

\* what requests.get produces
ApiResponses ==
    { Response(200, Obj(<<IdMember, PermalinkMember>>)),
      Response(200, Obj(<<IdMember>>)),
      Response(200, "oops"),
      Response(201, Obj(<<IdMember, PermalinkMember>>)),
      Response(404, Obj(<<Member("detail", Quote("not found"))>>)),
      [exc |-> "ConnectionError", status_code |-> 0, text |-> ""] }

Requests(secret) ==
    UNION { { [body |-> body, sig |-> sig, channel |-> channel] :
                sig \in Signatures(secret, body), channel \in Channels } :
            body \in Bodies }

NoRequest == [body |-> "", sig |-> PyNone, channel |-> ""]

NoResponse == [exc |-> "", status_code |-> 0, text |-> ""]

(***************************************************************************)
(* State                                                                   *)
(***************************************************************************)
VARIABLES
    plugin,     \* what the operator configured, self.config, whether activated
    config,     \* self.config as sentry_notification reads it
    rooms,      \* the names of the rooms self.rooms() returns
    request,    \* request[r]: raw body, signature header, <channel> of the path
    api,        \* api[r]: what the source API answers to the GET of request r
    frame,      \* frame[r]: where the handler of r is, and its local variables
    result,     \* result[r]: how the handling of r ended
    calls,      \* calls[r]: the calls the handling of r has made, in order
    round,      \* round[r]: which delivery of request r is being handled
    history,    \* history[r]: the results of the earlier deliveries of r
    gets,       \* the GETs the source API has received
    sent        \* the messages handed to the chat transport

vars == <<plugin, config, rooms, request, api, frame, result, calls, round, history, gets, sent>>

NoTarget == [kind |-> "none", name |-> ""]

NewFrame(pc) ==
    [pc |-> pc, req_data |-> PyNone, payload |-> PyNone, channel |-> "",
     target |-> NoTarget, project_slug |-> PyNone, token |-> PyNone,
     issue |-> PyNone]

NoResult == [kind |-> "none", status |-> 0, body |-> "", exc |-> "", line |-> 0]

\* `return body, status`
Return(body, status, line) ==
    [kind |-> "return", status |-> status, body |-> body, exc |-> "", line |-> line]

\* flask's abort(status, description): an HTTP error response
Abort(status, body, line) ==
    [kind |-> "abort", status |-> status, body |-> body, exc |-> "", line |-> line]

\* an exception nobody catches leaves the handler
Fault(exc, line) ==
    [kind |-> "fault", status |-> 0, body |-> "", exc |-> exc, line |-> line]

\* the plugin, activated with the configuration cfg
Activated(cfg) ==
    [configuration |-> PyConfig(cfg), config |-> PyConfig(cfg),
     activated |-> TRUE, outcome |-> "activated"]

InitWith(active, cfgs, roomSets, apiResponses) ==
    /\ config \in cfgs
    /\ plugin = Activated(config)
    /\ rooms \in roomSets
    /\ \E arrived \in [active -> Requests(config.CLIENT_SECRET)] :
           request = [r \in Reqs |-> IF r \in active THEN arrived[r] ELSE NoRequest]
    /\ \E answers \in [active -> apiResponses] :
           api = [r \in Reqs |-> IF r \in active THEN answers[r] ELSE NoResponse]
    /\ frame = [r \in Reqs |-> NewFrame(IF r \in active THEN "verify" ELSE "idle")]
    /\ result = [r \in Reqs |-> NoResult]
    /\ calls = [r \in Reqs |-> <<>>]
    /\ round = [r \in Reqs |-> 1]
    /\ history = [r \in Reqs |-> <<>>]
    /\ gets = <<>>
    /\ sent = <<>>

Init == InitWith({1}, Configs, RoomSets, ApiResponses)

(***************************************************************************)
(* sentry_notification, one action for each stretch of the handler between *)
(* two calls out of it                                                     *)
(***************************************************************************)
At(r, pc) == frame[r].pc = pc

Called(r, names) == calls' = [calls EXCEPT ![r] = @ \o names]

\* the handler of r ends with res
Ends(r, res) ==
    /\ frame' = [frame EXCEPT ![r].pc = "done"]
    /\ result' = [result EXCEPT ![r] = res]

\* lines 89-92: the signature check
StepVerify(r) ==
    /\ At(r, "verify")
    /\ LET req_data == _has_valid_sig(config, request[r])
       IN  /\ Called(r, <<"_has_valid_sig">>)
           /\ IF ~Truthy(req_data)
              THEN Ends(r, Abort(403, "Forbidden", 92))
              ELSE /\ frame' = [frame EXCEPT ![r].pc = "parse", ![r].req_data = req_data]
                   /\ UNCHANGED result
    /\ UNCHANGED <<plugin, config, rooms, request, api, round, history, gets, sent>>

\* line 95: json.loads of the verified bytes
StepParse(r) ==
    /\ At(r, "parse")
    /\ LET payload == json_loads(frame[r].req_data.v)
       IN  /\ Called(r, <<"json.loads">>)
           /\ IF payload.exc # ""
              THEN Ends(r, Fault(payload.exc, 95))
              ELSE /\ frame' = [frame EXCEPT ![r].pc = "rooms", ![r].payload = payload.val]
                   /\ UNCHANGED result
    /\ UNCHANGED <<plugin, config, rooms, request, api, round, history, gets, sent>>

\* StepRooms that joins the room it does not find
StepRoomsJoin(r) ==
    /\ At(r, "rooms")
    /\ LET channel == "#" \o request[r].channel
       IN  /\ Called(r, <<"rooms", "build_identifier">>)
           /\ rooms' = rooms \cup {channel}
           /\ frame' = [frame EXCEPT ![r].pc = "slug", ![r].channel = channel,
                                     ![r].target = build_identifier(channel)]
           /\ UNCHANGED result
    /\ UNCHANGED <<plugin, config, request, api, round, history, gets, sent>>

\* lines 97-108: the destination must be a joined room
StepRooms(r) ==
    /\ At(r, "rooms")
    /\ LET channel       == "#" \o request[r].channel
           found_channel == \E room \in rooms : room = channel
       IN  IF ~found_channel
           THEN /\ Called(r, <<"rooms">>)
                /\ Ends(r, Abort(404, "Not Found", 105))
           ELSE /\ Called(r, <<"rooms", "build_identifier">>)
                /\ frame' = [frame EXCEPT ![r].pc = "slug", ![r].channel = channel,
                                          ![r].target = build_identifier(channel)]
                /\ UNCHANGED result
    /\ UNCHANGED <<plugin, config, rooms, request, api, round, history, gets, sent>>

\* lines 110-114: the project slug, or the sentinel on a KeyError
StepSlug(r) ==
    /\ At(r, "slug")
    /\ LET slug == GetPath(frame[r].payload, <<"data", "issue", "project", "slug">>)
       IN  IF slug.exc \notin {"", "KeyError"}
           THEN Ends(r, Fault(slug.exc, 111))
           ELSE /\ frame' = [frame EXCEPT ![r].pc = "ignore",
                                          ![r].project_slug =
                                              IF slug.exc = "KeyError"
                                              THEN PyStr(NO_PROJECT_SLUG)
                                              ELSE slug.val]
                /\ UNCHANGED result
    /\ UNCHANGED <<plugin, config, rooms, request, api, calls, round, history, gets, sent>>

\* lines 116-117: ignored projects are not relayed
StepIgnore(r) ==
    /\ At(r, "ignore")
    /\ LET ignored == _is_ignored(config, frame[r].project_slug)
       IN  /\ Called(r, <<"_is_ignored">>)
           /\ IF ignored.exc # ""
              THEN Ends(r, Fault(ignored.exc, 116))
              ELSE IF ignored.val.v
              THEN Ends(r, Return("Valid message, not relayed.", 200, 117))
              ELSE /\ frame' = [frame EXCEPT ![r].pc = "token"]
                   /\ UNCHANGED result
    /\ UNCHANGED <<plugin, config, rooms, request, api, round, history, gets, sent>>

\* StepToken that takes the matched entry out of TOKENS
StepTokenOnce(r) ==
    /\ At(r, "token")
    /\ LET token == _get_project_token(config, frame[r].project_slug)
       IN  /\ Called(r, <<"_get_project_token">>)
           /\ IF token.exc # ""
              THEN /\ Ends(r, Fault(token.exc, 120))
                   /\ UNCHANGED config
              ELSE IF token.val.t = "None"
              THEN /\ Ends(r, Abort(403, "Valid message, but no token found.", 122))
                   /\ UNCHANGED config
              ELSE /\ frame' = [frame EXCEPT ![r].pc = "get", ![r].token = token.val]
                   /\ config' = [config EXCEPT !.TOKENS =
                                    SelectSeq(@, LAMBDA e : e.token # token.val.v)]
                   /\ UNCHANGED result
    /\ UNCHANGED <<plugin, rooms, request, api, round, history, gets, sent>>

\* lines 119-122: the token of the project
StepToken(r) ==
    /\ At(r, "token")
    /\ LET token == _get_project_token(config, frame[r].project_slug)
       IN  /\ Called(r, <<"_get_project_token">>)
           /\ IF token.exc # ""
              THEN Ends(r, Fault(token.exc, 120))
              ELSE IF token.val.t = "None"
              THEN Ends(r, Abort(403, "Valid message, but no token found.", 122))
              ELSE /\ frame' = [frame EXCEPT ![r].pc = "get", ![r].token = token.val]
                   /\ UNCHANGED result
    /\ UNCHANGED <<plugin, config, rooms, request, api, round, history, gets, sent>>

\* line 124: the issue of the event, fetched from the source API
StepGet(r) ==
    /\ At(r, "get")
    /\ LET issue_id == GetPath(frame[r].payload, <<"data", "issue", "id">>)
           issue    == _get_issue(issue_id.val, frame[r].token, api[r])
       IN  IF issue_id.exc # ""
           THEN /\ Ends(r, Fault(issue_id.exc, 124))
                /\ UNCHANGED <<calls, gets>>
           ELSE /\ Called(r, <<"_get_issue">>)
                /\ gets' = Append(gets, [req |-> r, round |-> round[r], get |-> issue.get])
                /\ IF issue.exc # ""
                   THEN Ends(r, Fault(issue.exc, 124))
                   ELSE /\ frame' = [frame EXCEPT ![r].pc = "build", ![r].issue = issue.val]
                        /\ UNCHANGED result
    /\ UNCHANGED <<plugin, config, rooms, request, api, round, history, sent>>

\* StepSend whose target is an attribute the running handlers share: it
\* holds what the highest-numbered of them has stored
StepSendShared(r) ==
    /\ At(r, "build")
    /\ LET holder    == CHOOSE q \in Reqs :
                            /\ frame[q].target # NoTarget
                            /\ \A p \in Reqs : frame[p].target # NoTarget => p <= q
           issue_url == GetItem(frame[r].issue, "permalink")
           action    == GetItem(frame[r].payload, "action")
           title     == GetPath(frame[r].payload, <<"data", "issue", "title">>)
           message   == BuildMessage(frame[r].project_slug, action.val, title.val,
                                     issue_url.val)
           fault     == IF issue_url.exc # "" THEN Fault(issue_url.exc, 125)
                        ELSE IF action.exc # "" THEN Fault(action.exc, 127)
                        ELSE IF title.exc # "" THEN Fault(title.exc, 128)
                        ELSE IF message.exc # "" THEN Fault(message.exc, 131)
                        ELSE NoResult
       IN  IF fault # NoResult
           THEN /\ Ends(r, fault)
                /\ UNCHANGED <<calls, sent>>
           ELSE /\ Called(r, <<"send">>)
                /\ sent' = Append(sent, [req |-> r, round |-> round[r],
                                         target |-> frame[holder].target,
                                         message |-> message.val.v])
                /\ Ends(r, Return("Message relayed to " \o frame[holder].target.name,
                                  202, 137))
    /\ UNCHANGED <<plugin, config, rooms, request, api, round, history, gets>>

\* lines 125-137: the message is built and sent
StepSend(r) ==
    /\ At(r, "build")
    /\ LET issue_url == GetItem(frame[r].issue, "permalink")
           action    == GetItem(frame[r].payload, "action")
           title     == GetPath(frame[r].payload, <<"data", "issue", "title">>)
           message   == BuildMessage(frame[r].project_slug, action.val, title.val,
                                     issue_url.val)
           fault     == IF issue_url.exc # "" THEN Fault(issue_url.exc, 125)
                        ELSE IF action.exc # "" THEN Fault(action.exc, 127)
                        ELSE IF title.exc # "" THEN Fault(title.exc, 128)
                        ELSE IF message.exc # "" THEN Fault(message.exc, 131)
                        ELSE NoResult
       IN  IF fault # NoResult
           THEN /\ Ends(r, fault)
                /\ UNCHANGED <<calls, sent>>
           ELSE /\ Called(r, <<"send">>)
                /\ sent' = Append(sent, [req |-> r, round |-> round[r],
                                         target |-> frame[r].target,
                                         message |-> message.val.v])
                /\ Ends(r, Return("Message relayed to " \o frame[r].target.name, 202, 137))
    /\ UNCHANGED <<plugin, config, rooms, request, api, round, history, gets>>

\* the source delivers the same webhook once more
Redeliver(r) ==
    /\ At(r, "done")
    /\ round[r] < MaxRounds
    /\ round' = [round EXCEPT ![r] = @ + 1]
    /\ history' = [history EXCEPT ![r] = Append(@, result[r])]
    /\ frame' = [frame EXCEPT ![r] = NewFrame("verify")]
    /\ result' = [result EXCEPT ![r] = NoResult]
    /\ calls' = [calls EXCEPT ![r] = <<>>]
    /\ UNCHANGED <<plugin, config, rooms, request, api, gets, sent>>

Next ==
    \E r \in Reqs :
        \/ StepVerify(r)
        \/ StepParse(r)
        \/ StepRooms(r)
        \/ StepSlug(r)
        \/ StepIgnore(r)
        \/ StepToken(r)
        \/ StepGet(r)
        \/ StepSend(r)
        \/ Redeliver(r)

Spec == Init /\ [][Next]_vars

(***************************************************************************)
(* Vocabulary of the properties                                            *)
(***************************************************************************)
Handling(r) == frame[r].pc \notin {"idle", "verify"}

Done(r) == frame[r].pc = "done"

\* the header is present and is the hex digest of the raw body
SigMatches(r) ==
    /\ request[r].sig.t = "str"
    /\ request[r].sig.v = hexdigest(config.CLIENT_SECRET, request[r].body)

Joined(r) == ("#" \o request[r].channel) \in rooms

Ran(r, name) == \E i \in DOMAIN calls[r] : calls[r][i] = name

IsOf(r, e) == e.req = r /\ e.round = round[r]

\* the GETs and the messages of the current handling of r
GetsOf(r) == SelectSeq(gets, LAMBDA e : IsOf(r, e))

SentOf(r) == SelectSeq(sent, LAMBDA e : IsOf(r, e))

NoEffects(r) == GetsOf(r) = <<>> /\ SentOf(r) = <<>>

\* the handler has extracted a textual project slug (the sentinel included)
HasSlug(r) == frame[r].project_slug.t = "str"

IgnoreMatches(r) ==
    \E i \in DOMAIN config.IGNORE : re_match(config.IGNORE[i], frame[r].project_slug.v)

TokenMatches(r) ==
    {i \in DOMAIN config.TOKENS : re_match(config.TOKENS[i].pat, frame[r].project_slug.v)}

FirstOf(S) == CHOOSE i \in S : \A j \in S : i <= j

\* the body decodes to an event from which data.issue.project.slug can be read
SlugExtractable(body) ==
    LET payload == json_loads(body)
    IN  /\ payload.exc = ""
        /\ GetPath(payload.val, <<"data", "issue", "project", "slug">>).exc = ""

(***************************************************************************)
(* C1: the signature check lets a request past the 403 reject if and only  *)
(* if the header is present and equals the hex HMAC-SHA256 of the raw      *)
(* body keyed by CLIENT_SECRET, for every body, the empty one included.    *)
(***************************************************************************)
C1_AcceptedIffDigestMatches ==
    \A r \in Reqs :
        Handling(r) => ((result[r] # Abort(403, "Forbidden", 92)) <=> SigMatches(r))

(***************************************************************************)
(* C2: a request without the signature header and a request whose header   *)
(* differs from the digest end alike, in the 403 reject of line 92, having *)
(* called nothing but the signature check: no room lookup, no token        *)
(* lookup, no GET, no message.                                             *)
(***************************************************************************)
C2_BadSignatureRejected ==
    \A r \in Reqs :
        (Handling(r) /\ ~SigMatches(r)) =>
            /\ Done(r)
            /\ result[r] = Abort(403, "Forbidden", 92)
            /\ calls[r] = <<"_has_valid_sig">>
            /\ NoEffects(r)

C2_Witness ==
    \E r \in Reqs :
        /\ Done(r)
        /\ request[r].sig.t = "None"
        /\ request[r].body # ""
        /\ result[r].status = 403

(***************************************************************************)
(* C3: a validly signed request, whatever its body, to a channel that is   *)
(* not a joined room ends in the 404 reject, with no ignore check, no      *)
(* token lookup, no GET and no message.                                    *)
(***************************************************************************)
C3_UnknownChannelIs404 ==
    \A r \in Reqs :
        (Done(r) /\ SigMatches(r) /\ ~Joined(r)) =>
            /\ result[r] = Abort(404, "Not Found", 105)
            /\ ~Ran(r, "_is_ignored")
            /\ ~Ran(r, "_get_project_token")
            /\ NoEffects(r)

(***************************************************************************)
(* C4: a validly signed request to a joined channel whose project slug     *)
(* matches an IGNORE pattern ends in 200 "not relayed", also when the slug *)
(* matches a TOKENS pattern: no token lookup, no GET, no message.          *)
(***************************************************************************)
C4_IgnoredIsNotRelayed ==
    \A r \in Reqs :
        (Done(r) /\ SigMatches(r) /\ Joined(r) /\ HasSlug(r) /\ IgnoreMatches(r)) =>
            /\ result[r] = Return("Valid message, not relayed.", 200, 117)
            /\ ~Ran(r, "_get_project_token")
            /\ NoEffects(r)

C4_Witness ==
    \E r \in Reqs :
        /\ Done(r)
        /\ HasSlug(r)
        /\ IgnoreMatches(r)
        /\ TokenMatches(r) # {}
        /\ result[r].status = 200

(***************************************************************************)
(* C5: a validly signed request to a joined channel whose project slug     *)
(* matches no IGNORE pattern and no TOKENS pattern ends in the 403 reject  *)
(* of line 122, with no GET and no message.                                *)
(***************************************************************************)
C5_NoTokenIs403 ==
    \A r \in Reqs :
        (Done(r) /\ SigMatches(r) /\ Joined(r) /\ HasSlug(r)
            /\ ~IgnoreMatches(r) /\ TokenMatches(r) = {}) =>
            /\ result[r] = Abort(403, "Valid message, but no token found.", 122)
            /\ NoEffects(r)

C5_Witness ==
    \E r \in Reqs :
        /\ Done(r)
        /\ HasSlug(r)
        /\ config.TOKENS # <<>>
        /\ TokenMatches(r) = {}
        /\ Ran(r, "_get_project_token")
        /\ result[r].status = 403

(***************************************************************************)
(* C6: a validly signed request to a joined channel whose slug is not      *)
(* ignored and matches a TOKENS pattern, and whose GET returned 200 with a *)
(* permalink, issues exactly one GET with the token of the first matching  *)
(* pattern, sends exactly one message to the identifier of '#'+channel,    *)
(* and returns 202.                                                        *)
(***************************************************************************)
C6_RelayedOnce ==
    \A r \in Reqs :
        (Done(r) /\ SigMatches(r) /\ Joined(r) /\ HasSlug(r)
            /\ ~IgnoreMatches(r) /\ TokenMatches(r) # {}
            /\ Ran(r, "_get_issue")
            /\ frame[r].issue.t = "dict" /\ "permalink" \in DOMAIN frame[r].issue.v) =>
            /\ Len(GetsOf(r)) = 1
            /\ GetsOf(r)[1].get.headers.Authorization =
                   "Bearer " \o config.TOKENS[FirstOf(TokenMatches(r))].token
            /\ Len(SentOf(r)) = 1
            /\ SentOf(r)[1].target = build_identifier("#" \o request[r].channel)
            /\ result[r].kind = "return"
            /\ result[r].status = 202

(***************************************************************************)
(* C7: a validly signed body that got to the decoder and from which no     *)
(* project slug can be decoded (not JSON, or a level of                    *)
(* data/issue/project/slug missing or not an object) does not abort the    *)
(* handler: handling goes on to the destination step and, on a joined      *)
(* channel, to the ignore step with the sentinel '(no project slug)'.      *)
(***************************************************************************)
C7_MalformedPayloadAbsorbed ==
    \A r \in Reqs :
        (Done(r) /\ SigMatches(r) /\ Ran(r, "json.loads")
            /\ ~SlugExtractable(request[r].body)) =>
            /\ Ran(r, "rooms")
            /\ Joined(r) => /\ Ran(r, "_is_ignored")
                            /\ frame[r].project_slug = PyStr(NO_PROJECT_SLUG)

(***************************************************************************)
(* C8: every handling ends in one of the HTTP responses 403, 404, 200 or   *)
(* 202 with a body, never in an unhandled fault.                           *)
(***************************************************************************)
C8_AlwaysAnHttpResponse ==
    \A r \in Reqs :
        Done(r) =>
            /\ result[r].kind \in {"return", "abort"}
            /\ result[r].status \in {403, 404, 200, 202}
            /\ result[r].body # ""

(***************************************************************************)
(* C9: _get_project_token returns the token of the first TOKENS entry, in  *)
(* configuration order, whose pattern matches the slug from its first      *)
(* character, and None when no entry matches; _is_ignored is true iff some *)
(* IGNORE pattern so matches.  A pattern of plain characters matches       *)
(* exactly the slugs that start with it.                                   *)
(***************************************************************************)
IsPlain(pat) == \A i \in 1..Len(pat) : Ch(pat, i) \notin {".", "*", "?", "\\"}

StartsWith(string, prefix) == Sub(string, 1, Len(prefix)) = prefix

C9_FirstMatchWins ==
    \A r \in Reqs :
        HasSlug(r) =>
            /\ Ran(r, "_is_ignored") =>
                   ((result[r] = Return("Valid message, not relayed.", 200, 117))
                        <=> IgnoreMatches(r))
            /\ Ran(r, "_get_project_token") =>
                   /\ frame[r].token =
                          IF TokenMatches(r) = {} THEN PyNone
                          ELSE PyStr(config.TOKENS[FirstOf(TokenMatches(r))].token)
                   /\ \A i \in DOMAIN config.TOKENS :
                          IsPlain(config.TOKENS[i].pat) =>
                              (i \in TokenMatches(r) <=>
                                  StartsWith(frame[r].project_slug.v, config.TOKENS[i].pat))

C9_Witness ==
    \E r \in Reqs :
        /\ HasSlug(r)
        /\ Ran(r, "_get_project_token")
        /\ \E i, j \in TokenMatches(r) :
              /\ i < j
              /\ config.TOKENS[i].token # config.TOKENS[j].token
              /\ frame[r].token = PyStr(config.TOKENS[i].token)

(***************************************************************************)
(* C10: the same request delivered again, under the same configuration,    *)
(* rooms and API response, ends as its previous delivery did, with the     *)
(* same GET and the same message.                                          *)
(***************************************************************************)
EffectsIn(r, k) ==
    LET G == SelectSeq(gets, LAMBDA e : e.req = r /\ e.round = k)
        S == SelectSeq(sent, LAMBDA e : e.req = r /\ e.round = k)
    IN  [gets |-> [i \in DOMAIN G |-> G[i].get],
         sent |-> [i \in DOMAIN S |-> [target |-> S[i].target, message |-> S[i].message]]]

C10_SameDecisionOnRedelivery ==
    \A r \in Reqs :
        (Done(r) /\ round[r] > 1) =>
            /\ result[r] = history[r][round[r] - 1]
            /\ EffectsIn(r, round[r]) = EffectsIn(r, round[r] - 1)

C10_Witness ==
    \E r \in Reqs :
        /\ Done(r)
        /\ round[r] > 1
        /\ result[r].status = 202
        /\ history[r][round[r] - 1].status = 202
        /\ Len(sent) = round[r]

(***************************************************************************)
(* The life of the plugin before it handles webhooks: the operator hands   *)
(* it a configuration, check_configuration accepts or refuses it, activate *)
(* activates the plugin or forbids the activation.                         *)
(***************************************************************************)
\* a key that is absent, or present with one of the values
Optional(key, values) == {<<>>} \cup {key :> v : v \in values}

\* what an operator may configure; PyNone: nothing
Configurations ==
    {PyNone} \cup
    { PyDict(secret @@ tokens @@ ignore) :
        secret \in Optional("CLIENT_SECRET", {PyStr(""), PyStr("f9876")}),
        tokens \in Optional("TOKENS", {PyItems(t) : t \in TokenTables}),
        ignore \in Optional("IGNORE",
                     {PyStr("demo-.*")} \cup
                     {PyList([i \in DOMAIN l |-> PyStr(l[i])]) : l \in IgnoreLists}) }

NoConfig == <<>>

InitLifecycle ==
    /\ plugin \in { [configuration |-> c, config |-> PyNone,
                     activated |-> FALSE, outcome |-> ""] : c \in Configurations }
    /\ config = NoConfig
    /\ rooms = {}
    /\ request = [r \in Reqs |-> NoRequest]
    /\ api = [r \in Reqs |-> NoResponse]
    /\ frame = [r \in Reqs |-> NewFrame("idle")]
    /\ result = [r \in Reqs |-> NoResult]
    /\ calls = [r \in Reqs |-> <<>>]
    /\ round = [r \in Reqs |-> 1]
    /\ history = [r \in Reqs |-> <<>>]
    /\ gets = <<>>
    /\ sent = <<>>

\* the host checks the operator's configuration and, if accepted, stores it
Configure ==
    /\ plugin.outcome = ""
    /\ plugin.configuration.t = "dict"
    /\ LET exc == check_configuration(plugin.configuration)
       IN  plugin' = IF exc # ""
                     THEN [plugin EXCEPT !.outcome = exc]
                     ELSE [plugin EXCEPT !.config = plugin.configuration,
                                         !.outcome = "configured"]
    /\ UNCHANGED <<config, rooms, request, api, frame, result, calls, round,
                   history, gets, sent>>

\* lines 37-43
Activate ==
    /\ ~plugin.activated
    /\ plugin.outcome \in {"", "configured", "ValidationException"}
    /\ LET new == activate(plugin.config)
       IN  /\ plugin' = [plugin EXCEPT
                            !.config = new.config,
                            !.activated = new.activated,
                            !.outcome = IF new.activated THEN "activated"
                                        ELSE "Not configured. Forbidding activation."]
           /\ config' = IF new.activated THEN HandlerConfig(new.config) ELSE config
    /\ UNCHANGED <<rooms, request, api, frame, result, calls, round, history, gets, sent>>

NextLifecycle == Configure \/ Activate

SpecLifecycle == InitLifecycle /\ [][NextLifecycle]_vars

(***************************************************************************)
(* C11: whenever the plugin is activated, CLIENT_SECRET is a non-empty     *)
(* string, TOKENS is a non-empty mapping, and IGNORE is present, and is    *)
(* the empty list if the operator did not supply it.                       *)
(***************************************************************************)
C11_ActivatedConfigurationComplete ==
    plugin.activated =>
        LET c == plugin.config.v
        IN  /\ "CLIENT_SECRET" \in DOMAIN c
            /\ c["CLIENT_SECRET"].t = "str"
            /\ c["CLIENT_SECRET"].v # ""
            /\ "TOKENS" \in DOMAIN c
            /\ c["TOKENS"].v # <<>>
            /\ "IGNORE" \in DOMAIN c
            /\ "IGNORE" \notin DOMAIN plugin.configuration.v => c["IGNORE"] = PyList(<<>>)

(***************************************************************************)
(* C12: one handling issues at most one GET and sends at most one message; *)
(* a message is sent only after the GET of that handling was answered with *)
(* status 200, and a handling that does not end in 202 has sent nothing.   *)
(***************************************************************************)
C12_AtMostOneGetAndMessage ==
    \A r \in Reqs :
        /\ Len(GetsOf(r)) <= 1
        /\ Len(SentOf(r)) <= 1
        /\ SentOf(r) # <<>> =>
               /\ Len(GetsOf(r)) = 1
               /\ api[r].exc = ""
               /\ api[r].status_code = 200
               /\ Done(r)
               /\ result[r].status = 202
        /\ (Done(r) /\ result[r].status # 202) => SentOf(r) = <<>>

C12_Witness ==
    \E r \in Reqs :
        /\ Done(r)
        /\ result[r].status = 202
        /\ Len(GetsOf(r)) = 1
        /\ Len(SentOf(r)) = 1
        /\ api[r].status_code = 200

(***************************************************************************)
(* C13: a validly signed request to a joined channel that is routed with   *)
(* the sentinel '(no project slug)' is never relayed: whatever the         *)
(* configuration, it ends in 200 (the sentinel is ignored) or in the 403   *)
(* of "no token found", with no GET and no message.                        *)
(***************************************************************************)
C13_SentinelNeverRelayed ==
    \A r \in Reqs :
        (Done(r) /\ SigMatches(r) /\ Joined(r)
            /\ frame[r].project_slug = PyStr(NO_PROJECT_SLUG)) =>
            /\ \/ result[r] = Return("Valid message, not relayed.", 200, 117)
               \/ result[r] = Abort(403, "Valid message, but no token found.", 122)
            /\ NoEffects(r)

(***************************************************************************)
(* C14: when the GET comes back with a response, _get_issue returns the    *)
(* failure sentinel False exactly when the status is not 200; the handler  *)
(* then reads 'permalink' from the sentinel all the same, so the request   *)
(* ends in the lookup fault of line 125 and no message is sent.            *)
(***************************************************************************)
C14_EnrichmentFailureFaults ==
    \A r \in Reqs :
        (Ran(r, "_get_issue") /\ api[r].exc = "") =>
            /\ api[r].status_code = 200 => frame[r].issue # PyBool(FALSE)
            /\ api[r].status_code # 200 =>
                  /\ frame[r].issue = PyBool(FALSE)
                  /\ SentOf(r) = <<>>
                  /\ Done(r) => result[r] = Fault("TypeError", 125)

C14_Witness ==
    \E r \in Reqs :
        /\ Ran(r, "_get_issue")
        /\ api[r].exc = ""
        /\ api[r].status_code = 404
        /\ frame[r].issue = PyBool(FALSE)
        /\ result[r] = Fault("TypeError", 125)

(***************************************************************************)
(* C15: the body is decoded only after the signature check has succeeded,  *)
(* as the second call of the handler, and what is decoded is the raw body  *)
(* the digest was computed over; a request whose check fails is never      *)
(* decoded.                                                                *)
(***************************************************************************)
C15_DecodeAfterVerify ==
    \A r \in Reqs :
        /\ Ran(r, "json.loads") =>
              /\ SigMatches(r)
              /\ Len(calls[r]) >= 2
              /\ calls[r][1] = "_has_valid_sig"
              /\ calls[r][2] = "json.loads"
              /\ frame[r].req_data = PyBytes(request[r].body)
        /\ (Ran(r, "_has_valid_sig") /\ ~SigMatches(r)) =>
              /\ calls[r] = <<"_has_valid_sig">>
              /\ frame[r].payload = PyNone
              /\ result[r] = Abort(403, "Forbidden", 92)

C15_Witness ==
    \E r \in Reqs :
        /\ SigMatches(r)
        /\ calls[r] = <<"_has_valid_sig", "json.loads">>
        /\ frame[r].req_data = PyBytes(request[r].body)
        /\ frame[r].payload.t = "dict"

(***************************************************************************)
(* Concurrent deliveries: every request of Reqs has arrived and the host   *)
(* interleaves the steps of their handlers as it likes.                    *)
(***************************************************************************)
ConcConfig ==
    [CLIENT_SECRET |-> "f9876",
     TOKENS        |-> <<Entry("demo-.*", "a1234"), Entry(".*", "b5678")>>,
     IGNORE        |-> <<"x-.*", "\\(no project.*">>]

ConcRooms == {"#ops", "#dev"}

Event(slug) == EventBody(ActionMember, IdMember, Project(Quote(slug)), TitleMember)

Signed(body, channel) ==
    [body |-> body, sig |-> PyStr(hexdigest(ConcConfig.CLIENT_SECRET, body)),
     channel |-> channel]

\* a delivery and what the source API would answer to its GET
ConcArrivals ==
    { [request |-> Signed(Event("demo-x"), "ops"),
       api     |-> Response(200, Obj(<<IdMember, PermalinkMember>>))],
      [request |-> Signed(Event("other"), "dev"),
       api     |-> Response(200, Obj(<<IdMember, PermalinkMember>>))],
      [request |-> [body |-> Event("demo-x"), sig |-> PyNone, channel |-> "ops"],
       api     |-> Response(200, Obj(<<IdMember, PermalinkMember>>))],
      [request |-> Signed(Event("other"), "dev"),
       api     |-> Response(404, Obj(<<Member("detail", Quote("not found"))>>))],
      [request |-> Signed(Event("x-demo"), "ops"),
       api     |-> Response(200, Obj(<<IdMember, PermalinkMember>>))] }

InitConc ==
    /\ config = ConcConfig
    /\ plugin = Activated(config)
    /\ rooms = ConcRooms
    /\ \E arrived \in [Reqs -> ConcArrivals] :
           /\ request = [r \in Reqs |-> arrived[r].request]
           /\ api = [r \in Reqs |-> arrived[r].api]
    /\ frame = [r \in Reqs |-> NewFrame("verify")]
    /\ result = [r \in Reqs |-> NoResult]
    /\ calls = [r \in Reqs |-> <<>>]
    /\ round = [r \in Reqs |-> 1]
    /\ history = [r \in Reqs |-> <<>>]
    /\ gets = <<>>
    /\ sent = <<>>

NextConc ==
    \E r \in Reqs :
        \/ StepVerify(r)
        \/ StepParse(r)
        \/ StepRooms(r)
        \/ StepSlug(r)
        \/ StepIgnore(r)
        \/ StepToken(r)
        \/ StepGet(r)
        \/ StepSend(r)

SpecConc == InitConc /\ [][NextConc]_vars

\* sentry_notification run from its first line to its end with nothing else
\* running: how it ends, the GETs it issues and the messages it sends
Alone(cfg, rms, req, resp) ==
    LET req_data     == _has_valid_sig(cfg, req)
        payload      == json_loads(req_data.v)
        channel      == "#" \o req.channel
        target       == build_identifier(channel)
        slug         == GetPath(payload.val, <<"data", "issue", "project", "slug">>)
        project_slug == IF slug.exc = "KeyError" THEN PyStr(NO_PROJECT_SLUG)
                        ELSE slug.val
        ignored      == _is_ignored(cfg, project_slug)
        token        == _get_project_token(cfg, project_slug)
        issue_id     == GetPath(payload.val, <<"data", "issue", "id">>)
        issue        == _get_issue(issue_id.val, token.val, resp)
        issue_url    == GetItem(issue.val, "permalink")
        action       == GetItem(payload.val, "action")
        title        == GetPath(payload.val, <<"data", "issue", "title">>)
        message      == BuildMessage(project_slug, action.val, title.val, issue_url.val)
        Quiet(res)   == [result |-> res, gets |-> <<>>, sent |-> <<>>]
        Asked(res)   == [result |-> res, gets |-> <<issue.get>>, sent |-> <<>>]
    IN  IF ~Truthy(req_data) THEN Quiet(Abort(403, "Forbidden", 92))
        ELSE IF payload.exc # "" THEN Quiet(Fault(payload.exc, 95))
        ELSE IF channel \notin rms THEN Quiet(Abort(404, "Not Found", 105))
        ELSE IF slug.exc \notin {"", "KeyError"} THEN Quiet(Fault(slug.exc, 111))
        ELSE IF ignored.exc # "" THEN Quiet(Fault(ignored.exc, 116))
        ELSE IF ignored.val.v THEN Quiet(Return("Valid message, not relayed.", 200, 117))
        ELSE IF token.exc # "" THEN Quiet(Fault(token.exc, 120))
        ELSE IF token.val.t = "None"
             THEN Quiet(Abort(403, "Valid message, but no token found.", 122))
        ELSE IF issue_id.exc # "" THEN Quiet(Fault(issue_id.exc, 124))
        ELSE IF issue.exc # "" THEN Asked(Fault(issue.exc, 124))
        ELSE IF issue_url.exc # "" THEN Asked(Fault(issue_url.exc, 125))
        ELSE IF action.exc # "" THEN Asked(Fault(action.exc, 127))
        ELSE IF title.exc # "" THEN Asked(Fault(title.exc, 128))
        ELSE IF message.exc # "" THEN Asked(Fault(message.exc, 131))
        ELSE [result |-> Return("Message relayed to " \o target.name, 202, 137),
              gets   |-> <<issue.get>>,
              sent   |-> <<[target |-> target, message |-> message.val.v]>>]

\* the first delivery of r, handled step by step, has ended as Alone says
AsAlone(r) ==
    LET alone == Alone(config, rooms, request[r], api[r])
        mine  == EffectsIn(r, 1)
    IN  /\ mine.gets = <<>> \/ mine.gets = alone.gets
        /\ mine.sent = <<>> \/ mine.sent = alone.sent
        /\ (Done(r) /\ round[r] = 1) =>
              /\ result[r] = alone.result
              /\ mine.gets = alone.gets
              /\ mine.sent = alone.sent

\* the step-by-step handler and Alone are the same handler
AloneIsTheHandler == AsAlone(1)

(***************************************************************************)
(* C16: when the handlers of several requests run at the same time, under  *)
(* every interleaving of their steps each request ends as it does when     *)
(* handled alone, with the same GET and the same message to the same       *)
(* destination, and issues nothing else on the way.                        *)
(***************************************************************************)
C16_ConcurrentAsAlone == \A r \in Reqs : AsAlone(r)

\* two relayed requests whose GETs and sends interleave
C16_Witness ==
    /\ Done(1) /\ Done(2)
    /\ result[1].status = 202 /\ result[2].status = 202
    /\ result[1] # result[2]
    /\ Len(gets) >= 2 /\ Len(sent) >= 2
    /\ gets[1].req = 1 /\ gets[2].req = 2
    /\ sent[1].req = 2 /\ sent[2].req = 1

(***************************************************************************)
(* C17: no step of sentry_notification, on any path, changes the           *)
(* configuration (CLIENT_SECRET, TOKENS, IGNORE) or the set of joined      *)
(* rooms: the handler never joins or creates the room it is asked for.     *)
(***************************************************************************)
C17_ConfigurationAndRoomsUntouched ==
    [][/\ config' = config
       /\ plugin' = plugin
       /\ rooms' = rooms]_vars

\* a request for a room that is not joined has been turned away, and the
\* room is still not joined
C17_Witness ==
    \E r \in Reqs :
        /\ Ran(r, "rooms")
        /\ result[r] = Abort(404, "Not Found", 105)
        /\ ("#" \o request[r].channel) \notin rooms
        /\ rooms # {}
        /\ plugin = Activated(config)

====
